---------------------------- MODULE Spec2Model ----------------------------
(***************************************************************************)
(* GPU data collection of the beszel agent (package agent: GPUManager,     *)
(* gpuCollector).  One collector goroutine per detected vendor tool feeds  *)
(* its parser; the parsers and GetCurrentData share GPUManager's mutex.    *)
(*                                                                         *)
(* float64 values are fixed-point integers in thousandths (45.0 is 45000), *)
(* with NaN and +Inf as two negative codes (every number the parsers       *)
(* produce is non-negative).  A quotient is truncated to the thousandth,   *)
(* which leaves its rounding to two decimals exact for such numbers.       *)
(* GPUData.Count is a float64 holding a whole number and is kept as that   *)
(* number; a byte count is kept in whole bytes.  A name is the sequence of *)
(* its space-separated words.                                              *)
(*                                                                         *)
(* A parser's call is two steps: its Lock(), then its code up to Unlock(); *)
(* parseIntelGpuTopData's name lookup, run with the lock held, is a third. *)
(* GetCurrentData's Lock(), body and Unlock() are one step.                *)
(***************************************************************************)
EXTENDS Integers, Sequences, FiniteSets, TLC

\* ------------------------------------------------------------------ bounds
\* Parser calls that take the registry lock, over the whole run.
MaxSamples == 3
\* GetCurrentData calls, over the whole run.
MaxSnaps == 2

\* --------------------------------------------------------------- constants
nvidiaSmiCmd == "nvidia-smi"
rocmSmiCmd == "rocm-smi"
tegraStatsCmd == "tegrastats"
intelGpuTopCmd == "intel_gpu_top"
maxFailureRetries == 5

\* The four tools, in the order detectGPUs and NewGPUManager go through them.
Tools == <<nvidiaSmiCmd, rocmSmiCmd, tegraStatsCmd, intelGpuTopCmd>>
ToolSet == {Tools[i] : i \in 1..Len(Tools)}

\* ------------------------------------------------------------------ floats
NaN == 0 - 1
Inf == 0 - 2
\* a field whose text is no number, such as "[N/A]", and one that is empty
NotANumber == 0 - 3
EmptyText == 0 - 4

\* a + b on float64
FAdd(a, b) ==
    IF a = NaN \/ b = NaN THEN NaN
    ELSE IF a = Inf \/ b = Inf THEN Inf
    ELSE a + b

\* a / n on float64, n a whole number: 0/0 is NaN, x/0 is +Inf
FDiv(a, n) ==
    IF a = NaN THEN NaN
    ELSE IF a = Inf THEN Inf
    ELSE IF n = 0 THEN (IF a = 0 THEN NaN ELSE Inf)
    ELSE a \div n

\* a == b on float64: NaN equals nothing, itself included
FEq(a, b) == a # NaN /\ b # NaN /\ a = b

\* round to two decimal places (half away from zero)
twoDecimals(x) ==
    IF x = NaN \/ x = Inf THEN x ELSE ((x + 5) \div 10) * 10

\* bytes (whole) to megabytes (thousandths), rounded
bytesToMegabytes(b) == twoDecimals(b \div 1000)

\* mutant: the MiB reading is stored without the unit conversion
MiBToMB_NoConversion(x) == x

\* x / mebibytesInAMegabyte (1.024)
MiBToMB(x) == (x \div 128) * 125 + ((x % 128) * 125) \div 128

\* x / milliwattsInAWatt (1000.0)
MilliwattsToWatts(x) == x \div 1000

\* strconv.ParseFloat with its error dropped: text that is no number reads 0
ParseFloat(s) == IF s = NotANumber \/ s = EmptyText THEN 0 ELSE s

\* ----------------------------------------------------------------- GPUData
\* &system.GPUData{Name: name}: every other field has Go's zero value
NewGPUData(name) ==
    [Name |-> name, Temperature |-> 0, MemoryUsed |-> 0, MemoryTotal |-> 0,
     Usage |-> 0, Power |-> 0, Count |-> 0]

\* the map m with key id set to v (a new key or an existing one)
Put(m, id, v) ==
    [k \in DOMAIN m \cup {id} |-> IF k = id THEN v ELSE m[k]]

NoMap == <<>>

\* strings.TrimPrefix(name, "NVIDIA ")
TrimPrefixNvidia(name) ==
    IF Len(name) > 1 /\ name[1] = "NVIDIA" THEN Tail(name) ELSE name

\* strings.TrimSuffix(name, " Laptop GPU")
TrimSuffixLaptop(name) ==
    IF Len(name) > 2 /\ name[Len(name) - 1] = "Laptop" /\ name[Len(name)] = "GPU"
    THEN SubSeq(name, 1, Len(name) - 2) ELSE name

\* ------------------------------------------------------------ tool output
\* One nvidia-smi CSV line: nf is its number of ", "-separated fields.
NvLine(id, name, temp, mu, mt, usage, power) ==
    [nf |-> 7, id |-> id, name |-> name, temp |-> temp, memUsed |-> mu,
     memTotal |-> mt, usage |-> usage, power |-> power]
NvA == NvLine("0", <<"NVIDIA", "RTX", "4090">>, 45000, 2048000, 24576000, 10000, 30000)
NvB == NvLine("0", <<"NVIDIA", "RTX", "4090">>, 55000, 2048000, 24576000, 20000, 40000)
NvC == NvLine("1", <<"NVIDIA", "RTX", "4090", "Laptop", "GPU">>, 61000, 1000000, 8192000,
              NotANumber, 30000)
NvShort == [NvA EXCEPT !.nf = 1]
NvidiaLines == {NvA, NvB, NvC, NvShort}

\* One tegrastats line: each pattern's submatches, <<>> when it does not match.
TegraFull == [ram |-> <<1024000, 4096000>>, gr3d |-> <<20000>>, tj |-> <<50000>>,
              mw |-> <<2500000>>]
TegraNoMatch == [ram |-> <<>>, gr3d |-> <<>>, tj |-> <<>>, mw |-> <<>>]
TegraLines == {TegraFull, TegraNoMatch}

\* One rocm-smi line after json.Unmarshal: err when it does not decode, else
\* the cards of the decoded map (in the order the range visits them).
RocmCard == [ID |-> "a1", Name |-> <<"Radeon", "RX">>, Temperature |-> 40000,
             MemoryUsed |-> 512000000, MemoryTotal |-> 1024000000,
             Usage |-> 10000, PowerPackage |-> EmptyText, PowerSocket |-> 30000]
RocmBad == [err |-> TRUE, cards |-> <<>>]
RocmEmpty == [err |-> FALSE, cards |-> <<>>]
RocmOne == [err |-> FALSE, cards |-> <<RocmCard>>]
RocmLines == {RocmBad, RocmEmpty, RocmOne}

\* The whole intel_gpu_top output after json.Unmarshal.
IntelBad == [err |-> TRUE, render |-> 0, blitter |-> 0, video |-> 0, enhance |-> 0,
             gpu |-> 0, package |-> 0]
IntelOne == [err |-> FALSE, render |-> 10500, blitter |-> 0, video |-> 2250,
             enhance |-> 0, gpu |-> 3000, package |-> 8000]
IntelBlobs == {IntelBad, IntelOne}

\* What the name lookup's subprocess gives: an error, or its first line's words.
NameErr == [err |-> TRUE, line |-> <<>>]
NameLine == [err |-> FALSE,
             line |-> <<"intel-gpu-top:", "Intel", "Alderlake_n", "(Gen12)", "@", "/dev/dri/card1">>]
NameResults == {NameErr, NameLine}

Ids == {"0", "1", "a1"}

\* ----------------------------------------------------------------- parsers
\* parseNvidiaData's scan of its output's lines, under the lock
RECURSIVE nvidiaScan(_, _, _, _)
nvidiaScan(m, lines, tegrastats, valid) ==
    IF lines = <<>> THEN [ok |-> valid, map |-> m]
    ELSE LET f == Head(lines) IN
      IF f.nf < 7 THEN nvidiaScan(m, Tail(lines), tegrastats, valid)
      ELSE IF f.id \notin DOMAIN m /\ tegrastats
      THEN [ok |-> FALSE,
            map |-> Put(m, f.id, NewGPUData(TrimSuffixLaptop(TrimPrefixNvidia(f.name))))]
      ELSE LET m1 == IF f.id \in DOMAIN m THEN m
                     ELSE Put(m, f.id, NewGPUData(TrimSuffixLaptop(TrimPrefixNvidia(f.name))))
               gpu == m1[f.id]
               upd == [gpu EXCEPT !.Temperature = ParseFloat(f.temp),
                                  !.MemoryUsed = MiBToMB(ParseFloat(f.memUsed)),
                                  !.MemoryTotal = MiBToMB(ParseFloat(f.memTotal)),
                                  !.Usage = FAdd(gpu.Usage, ParseFloat(f.usage)),
                                  !.Power = FAdd(gpu.Power, ParseFloat(f.power)),
                                  !.Count = gpu.Count + 1]
           IN nvidiaScan(Put(m1, f.id, upd), Tail(lines), tegrastats, TRUE)

\* mutant: the parser goes on to record metrics although tegrastats is active
parseNvidiaData_IgnoresTegrastats(m, output, tegrastats) ==
    nvidiaScan(m, output, FALSE, FALSE)

parseNvidiaData(m, output, tegrastats) == nvidiaScan(m, output, tegrastats, FALSE)

\* mutant: with no entry "0" the parser reports that it found no valid data
jetsonParser_FailsWithoutEntry(m, line) ==
    IF "0" \notin DOMAIN m THEN [ok |-> FALSE, map |-> m]
    ELSE [ok |-> TRUE, map |-> Put(m, "0", [m["0"] EXCEPT !.Count = @ + 1])]

\* the closure getJetsonParser returns, under the lock
jetsonParser(m, line) ==
    IF "0" \notin DOMAIN m THEN [ok |-> TRUE, map |-> m]
    ELSE LET g == m["0"]
             g1 == IF line.ram # <<>>
                   THEN [g EXCEPT !.MemoryUsed = line.ram[1], !.MemoryTotal = line.ram[2]]
                   ELSE g
             g2 == IF line.gr3d # <<>>
                   THEN [g1 EXCEPT !.Usage = FAdd(g1.Usage, line.gr3d[1])] ELSE g1
             g3 == IF line.tj # <<>> THEN [g2 EXCEPT !.Temperature = line.tj[1]] ELSE g2
             g4 == IF line.mw # <<>>
                   THEN [g3 EXCEPT !.Power = FAdd(g3.Power, MilliwattsToWatts(line.mw[1]))]
                   ELSE g3
         IN [ok |-> TRUE, map |-> Put(m, "0", [g4 EXCEPT !.Count = g4.Count + 1])]

\* parseAmdData's range over the decoded cards, under the lock
RECURSIVE amdRange(_, _)
amdRange(m, cards) ==
    IF cards = <<>> THEN m
    ELSE LET v == Head(cards)
             power == IF v.PowerPackage # EmptyText THEN ParseFloat(v.PowerPackage)
                      ELSE ParseFloat(v.PowerSocket)
             m1 == IF v.ID \in DOMAIN m THEN m ELSE Put(m, v.ID, NewGPUData(v.Name))
             gpu == m1[v.ID]
             upd == [gpu EXCEPT !.Temperature = ParseFloat(v.Temperature),
                                !.MemoryUsed = bytesToMegabytes(ParseFloat(v.MemoryUsed)),
                                !.MemoryTotal = bytesToMegabytes(ParseFloat(v.MemoryTotal)),
                                !.Usage = FAdd(gpu.Usage, ParseFloat(v.Usage)),
                                !.Power = FAdd(gpu.Power, power),
                                !.Count = gpu.Count + 1]
         IN amdRange(Put(m1, v.ID, upd), Tail(cards))

\* mutant: the empty-map test is missing
amdDecodes_NoEmptyTest(output) == ~output.err

\* parseAmdData: the decode and the empty-map test come before the lock
amdDecodes(output) == ~output.err /\ Len(output.cards) # 0

parseAmdData(m, output) ==
    IF ~amdDecodes(output) THEN [ok |-> FALSE, map |-> m]
    ELSE [ok |-> TRUE, map |-> amdRange(m, output.cards)]

\* getIntelGpuName, from what its subprocess gave
RECURSIVE upTo(_, _)
upTo(words, stop) ==
    IF words = <<>> \/ Head(words) = stop THEN <<>>
    ELSE <<Head(words)>> \o upTo(Tail(words), stop)

RECURSIVE after(_, _)
after(words, w) ==
    IF words = <<>> THEN <<>>
    ELSE IF Head(words) = w THEN Tail(words) ELSE after(Tail(words), w)

getIntelGpuName(res) ==
    IF res.err THEN <<"Intel", "GPU">>
    ELSE IF \E i \in 1..Len(res.line) : res.line[i] = "Intel"
    THEN upTo(upTo(after(res.line, "Intel"), "Intel"), "@")
    ELSE <<"Intel", "GPU">>

\* parseIntelGpuTopData's update of entry "0", under the lock; name is used
\* only when the entry is created
intelUpdate(m, info, name) ==
    LET m1 == IF "0" \in DOMAIN m THEN m ELSE Put(m, "0", NewGPUData(name))
        gpu == m1["0"]
        totalUsage == info.render + info.blitter + info.video + info.enhance
        power == IF info.package > info.gpu THEN info.package ELSE info.gpu
    IN Put(m1, "0", [gpu EXCEPT !.Usage = FAdd(gpu.Usage, totalUsage),
                                  !.Power = FAdd(gpu.Power, power),
                                  !.Count = gpu.Count + 1])

\* ---------------------------------------------------------- GetCurrentData
\* nameCounts[name] after the first loop
nameCounts(m, name) == Cardinality({id \in DOMAIN m : m[id].Name = name})

\* the second loop's writes to *gpu: the rounding, the averages, the reset
averaged(gpu) ==
    [gpu EXCEPT !.Temperature = twoDecimals(gpu.Temperature),
                !.MemoryUsed = twoDecimals(gpu.MemoryUsed),
                !.MemoryTotal = twoDecimals(gpu.MemoryTotal),
                !.Usage = twoDecimals(FDiv(gpu.Usage, gpu.Count)),
                !.Power = twoDecimals(FDiv(gpu.Power, gpu.Count)),
                !.Count = 1]

\* mutant: the id is appended to gpu.Name, in the registry, not to the copy's
registryAfter_StoresName(m) ==
    [id \in DOMAIN m |->
        IF nameCounts(m, m[id].Name) > 1
        THEN [averaged(m[id]) EXCEPT !.Name = Append(m[id].Name, id)]
        ELSE averaged(m[id])]

\* the registry after GetCurrentData
registryAfter(m) == [id \in DOMAIN m |-> averaged(m[id])]

\* gpuCopy, with the id appended to a name that several entries have
gpuCopy(m, id) ==
    LET g == averaged(m[id])
    IN IF nameCounts(m, g.Name) > 1 THEN [g EXCEPT !.Name = Append(g.Name, id)] ELSE g

\* mutant: the returned map holds the registry's own entry, not a copy
cell_Alias(m, id) == [alias |-> TRUE, val |-> averaged(m[id])]

\* gpuData[id] = gpuCopy: the returned map holds the struct by value.  A cell
\* with alias set would stand for one that still points into the registry.
cell(m, id) == [alias |-> FALSE, val |-> gpuCopy(m, id)]

\* what the holder of a returned map reads at id
readCell(c, id, m) == IF c.alias THEN m[id] ELSE c.val

\* --------------------------------------------------------------- detection
\* mutant: intel_gpu_top is looked up but its flag is left out
detectGPUs_ForgetsIntel(path) ==
    {Tools[i] : i \in {j \in 1..Len(Tools) : Tools[j] \in path}} \ {intelGpuTopCmd}

\* detectGPUs: the flags it sets, from the tools found on the search path
detectGPUs(path) == {Tools[i] : i \in {j \in 1..Len(Tools) : Tools[j] \in path}}

\* ------------------------------------------------------------------- state
\* The hosts explored, each the set of tools found on the search path: no
\* tool, one tool, or tegrastats with one other tool.
Hosts ==
    {{}} \cup {{c} : c \in ToolSet} \cup {{tegraStatsCmd, c} : c \in ToolSet \ {tegraStatsCmd}}

VARIABLES
    path,        \* the host: the tools exec.LookPath finds
    mgr,         \* NewGPUManager: "new" before the call, then "ok" or "error"
    flags,       \* gm.nvidiaSmi, gm.rocmSmi, gm.tegrastats, gm.intelGpuTop: the set ones
    started,     \* the collector goroutines started, in order
    GpuDataMap,  \* gm.GpuDataMap
    mutex,       \* gm's sync.Mutex: its holder, "" when free
    pc,          \* each collector goroutine's position: "off", "start" (about to
                 \* call collect()), "run" (reading its subprocess's output),
                 \* "parse" (in its parser, past Lock()), "name", "wait" (at
                 \* cmd.Wait), "sleep", "done" (its loop has ended)
    proc,        \* per collector, the subprocess its latest cmd.Start started:
                 \* "running", "closed" once io.ReadAll has read its output
                 \* to the end of the stream, "none" once it has been waited
                 \* for (or before any was started)
    failures,    \* the failures counter of the rocm-smi and intel_gpu_top goroutines
    blob,        \* parseIntelGpuTopData's decoded output while it looks the name up
    snapPc,      \* the caller of GetCurrentData: "idle" or "waiting" for the lock
    lastSnap,    \* what the last GetCurrentData call returned
    held,        \* a returned map the caller still holds, and may write to
    acc,         \* per id: the readings added since the last GetCurrentData
    dirty,       \* a parser changed the registry since the last GetCurrentData
    writers,     \* per id: the collectors whose parser created or changed the entry
    okAfter,     \* per failure-counting collector, while it sleeps after a pass
                 \* that succeeded: {n}, n the failures it had counted before
                 \* that pass; {} at any other time
    nSamples,    \* parser calls so far that took the lock
    nSnaps       \* GetCurrentData calls so far

vars == <<path, mgr, flags, started, GpuDataMap, mutex, pc, proc, failures, blob,
          snapPc, lastSnap, held, acc, dirty, writers, okAfter, nSamples, nSnaps>>

\* writers after collector c's parser took the registry from m to m2
wrote(w, c, m, m2) ==
    [id \in Ids |-> IF id \in DOMAIN m2 /\ (id \notin DOMAIN m \/ m2[id] # m[id])
                    THEN w[id] \cup {c} ELSE w[id]]

NoReadings == [id \in Ids |-> [n |-> 0, usage |-> 0, power |-> 0]]

addReading(a, id, u, p) ==
    [a EXCEPT ![id] = [n |-> @.n + 1, usage |-> @.usage + u, power |-> @.power + p]]

RECURSIVE addCardReadings(_, _)
addCardReadings(a, cards) ==
    IF cards = <<>> THEN a
    ELSE LET v == Head(cards) IN
         addCardReadings(addReading(a, v.ID, ParseFloat(v.Usage),
                                    IF v.PowerPackage # EmptyText
                                    THEN ParseFloat(v.PowerPackage)
                                    ELSE ParseFloat(v.PowerSocket)),
                         Tail(cards))

Init ==
    /\ path \in Hosts
    /\ mgr = "new"
    /\ flags = {}
    /\ started = <<>>
    /\ GpuDataMap = NoMap
    /\ mutex = ""
    /\ pc = [c \in ToolSet |-> "off"]
    /\ proc = [c \in ToolSet |-> "none"]
    /\ failures = [c \in {rocmSmiCmd, intelGpuTopCmd} |-> 0]
    /\ blob = IntelBad
    /\ snapPc = "idle"
    /\ lastSnap = NoMap
    /\ held = NoMap
    /\ acc = NoReadings
    /\ dirty = FALSE
    /\ writers = [id \in Ids |-> {}]
    /\ okAfter = [c \in {rocmSmiCmd, intelGpuTopCmd} |-> {}]
    /\ nSamples = 0
    /\ nSnaps = 0

\* ------------------------------------------------------------ construction
\* the startCollector calls NewGPUManager makes, one per set flag
startCollectors(fl) == SelectSeq(Tools, LAMBDA c : c \in fl)

NewGPUManager ==
    /\ mgr = "new"
    /\ LET fl == detectGPUs(path) IN
         IF fl = {}
         THEN /\ mgr' = "error"
              /\ UNCHANGED <<flags, started, pc>>
         ELSE /\ mgr' = "ok"
              /\ flags' = fl
              /\ started' = startCollectors(fl)
              /\ pc' = [c \in ToolSet |->
                          IF \E i \in 1..Len(startCollectors(fl)) : startCollectors(fl)[i] = c
                          THEN "start" ELSE "off"]
    /\ UNCHANGED <<path, GpuDataMap, mutex, proc, failures, blob, snapPc, lastSnap, held,
                   acc, dirty, writers, nSamples, nSnaps,
                   okAfter>>

\* -------------------------------------------------------------- collectors
\* mutant: gpuCollector.start gives up on any error
afterCollect_StopsOnAnyError(c, result, f) ==
    [pc |-> IF result = "nil" THEN (IF c \in {nvidiaSmiCmd, tegraStatsCmd} THEN "start" ELSE "sleep")
            ELSE "done",
     failures |-> f]

\* mutant: the intel_gpu_top goroutine keeps its count after a success
afterCollect_IntelKeepsCount(c, result, f) ==
    IF c \in {nvidiaSmiCmd, tegraStatsCmd}
    THEN [pc |-> CASE result = "nil" -> "start"
                   [] result = "nodata" -> "done"
                   [] OTHER -> "sleep",
          failures |-> f]
    ELSE IF result = "nil" THEN [pc |-> "sleep", failures |-> f]
    ELSE [pc |-> IF f + 1 > maxFailureRetries THEN "done" ELSE "sleep", failures |-> f + 1]

\* mutant: the rocm-smi goroutine sets its count back after a success
afterCollect_RocmResets(c, result, f) ==
    IF c \in {nvidiaSmiCmd, tegraStatsCmd}
    THEN [pc |-> CASE result = "nil" -> "start"
                   [] result = "nodata" -> "done"
                   [] OTHER -> "sleep",
          failures |-> f]
    ELSE IF result = "nil" THEN [pc |-> "sleep", failures |-> 0]
    ELSE [pc |-> IF f + 1 > maxFailureRetries THEN "done" ELSE "sleep", failures |-> f + 1]

\* What a goroutine does with collect()'s result: "nil", "nodata"
\* (errNoValidData) or any other error ("spawn": the pipe or cmd.Start failed,
\* "stream": the read of the output failed, "exit": cmd.Wait's error).
\* [pc, failures]
afterCollect(c, result, f) ==
    IF c \in {nvidiaSmiCmd, tegraStatsCmd}
    THEN [pc |-> CASE result = "nil" -> "start"
                   [] result = "nodata" -> "done"
                   [] OTHER -> "sleep",
          failures |-> f]
    ELSE IF c = rocmSmiCmd
    THEN IF result = "nil" THEN [pc |-> "sleep", failures |-> f]
         ELSE [pc |-> IF f + 1 > maxFailureRetries THEN "done" ELSE "sleep",
               failures |-> f + 1]
    ELSE IF result = "nil" THEN [pc |-> "sleep", failures |-> 0]
         ELSE [pc |-> IF f + 1 > maxFailureRetries THEN "done" ELSE "sleep",
               failures |-> f + 1]

\* pc and failures after collector c's collect() returned result
Returned(c, result) ==
    LET f == IF c \in DOMAIN failures THEN failures[c] ELSE 0
        a == afterCollect(c, result, f)
    IN /\ pc' = [pc EXCEPT ![c] = a.pc]
       /\ failures' = IF c \in DOMAIN failures
                      THEN [failures EXCEPT ![c] = a.failures] ELSE failures

\* mutant: collect() goes on scanning after its parser returned false
Dispatched_KeepsScanning(c, hasValidData) ==
    pc' = [pc EXCEPT ![c] = "run"] /\ UNCHANGED failures

\* collect()'s scan loop after c.parse returned for a line: the next
\* scanner.Scan(), or the return of errNoValidData
Dispatched(c, hasValidData) ==
    IF hasValidData THEN pc' = [pc EXCEPT ![c] = "run"] /\ UNCHANGED failures
    ELSE Returned(c, "nodata")

\* mutant: a Lock() that returns without excluding anyone
Lock_NoExclusion(g) == ""

\* gm.Lock() returned in goroutine g: the mutex is g's until its Unlock()
Lock(g) == g

\* collect() makes the command and its pipe and calls cmd.Start
Start(c, ok) ==
    /\ pc[c] = "start"
    /\ IF ok
       THEN /\ pc' = [pc EXCEPT ![c] = "run"]
            /\ proc' = [proc EXCEPT ![c] = "running"]
            /\ UNCHANGED failures
       ELSE /\ Returned(c, "spawn")
            /\ UNCHANGED proc
    /\ UNCHANGED <<path, mgr, flags, started, GpuDataMap, mutex, blob, snapPc, lastSnap,
                   held, acc, dirty, writers, nSamples, nSnaps,
                   okAfter>>

\* intel_gpu_top closes its output, and io.ReadAll reaches the end of the
\* stream.  (In line mode the end of the stream is the step on which
\* scanner.Scan returns false and collect() goes on to return, PassEnd.)
OutputEnds ==
    /\ pc[intelGpuTopCmd] = "run" /\ proc[intelGpuTopCmd] = "running"
    /\ proc' = [proc EXCEPT ![intelGpuTopCmd] = "closed"]
    /\ UNCHANGED <<path, mgr, flags, started, GpuDataMap, mutex, pc, failures, blob,
                   snapPc, lastSnap, held, acc, dirty, writers, okAfter, nSamples, nSnaps>>

\* mutant: intel_gpu_top's output is handed to the parser as it comes
outputReady_BeforeEnd(c, p) == p \in {"running", "closed"}

\* whether collect() has output to hand to c's parser, p being the state of
\* the subprocess: a line the scanner read, or what io.ReadAll returned, which
\* it does at the end of the stream
outputReady(c, p) == IF c = intelGpuTopCmd THEN p = "closed" ELSE p = "running"

\* collect() read a line (intel_gpu_top: the whole output) and called c's
\* parser, which got past gm.Lock().  parseAmdData and parseIntelGpuTopData
\* come here only with output that decodes.
ParserLock(c) ==
    /\ pc[c] = "run" /\ mutex = "" /\ nSamples < MaxSamples
    /\ outputReady(c, proc[c])
    /\ pc' = [pc EXCEPT ![c] = "parse"]
    /\ mutex' = Lock(c)
    /\ nSamples' = nSamples + 1
    /\ UNCHANGED <<path, mgr, flags, started, GpuDataMap, proc, failures, blob, snapPc,
                   lastSnap, held, acc, dirty, writers, nSnaps,
                   okAfter>>

\* parseNvidiaData on one line of nvidia-smi, from its Lock() to its Unlock(),
\* and collect()'s test of what it returned
NvidiaLine(line) ==
    /\ pc[nvidiaSmiCmd] = "parse"
    /\ LET r == parseNvidiaData(GpuDataMap, <<line>>, tegraStatsCmd \in flags) IN
         /\ GpuDataMap' = r.map
         /\ acc' = IF r.ok THEN addReading(acc, line.id, ParseFloat(line.usage),
                                           ParseFloat(line.power))
                   ELSE acc
         /\ dirty' = (dirty \/ r.map # GpuDataMap)
         /\ writers' = wrote(writers, nvidiaSmiCmd, GpuDataMap, r.map)
         /\ Dispatched(nvidiaSmiCmd, r.ok)
    /\ mutex' = ""
    /\ UNCHANGED <<path, mgr, flags, started, proc, blob, snapPc, lastSnap, held,
                   nSamples, nSnaps,
                   okAfter>>

\* the Jetson parser on one line of tegrastats, from its Lock() to its Unlock()
TegraLine(line) ==
    /\ pc[tegraStatsCmd] = "parse"
    /\ LET r == jetsonParser(GpuDataMap, line) IN
         /\ GpuDataMap' = r.map
         /\ acc' = IF "0" \in DOMAIN GpuDataMap
                   THEN addReading(acc, "0",
                                   IF line.gr3d # <<>> THEN line.gr3d[1] ELSE 0,
                                   IF line.mw # <<>> THEN MilliwattsToWatts(line.mw[1]) ELSE 0)
                   ELSE acc
         /\ dirty' = (dirty \/ r.map # GpuDataMap)
         /\ writers' = wrote(writers, tegraStatsCmd, GpuDataMap, r.map)
         /\ Dispatched(tegraStatsCmd, r.ok)
    /\ mutex' = ""
    /\ UNCHANGED <<path, mgr, flags, started, proc, blob, snapPc, lastSnap, held,
                   nSamples, nSnaps,
                   okAfter>>

\* parseAmdData on one line of rocm-smi: a line that does not decode, or
\* decodes to an empty map, is turned down before the lock
RocmLine(line) ==
    /\ pc[rocmSmiCmd] = (IF amdDecodes(line) THEN "parse" ELSE "run")
    /\ amdDecodes(line) \/ outputReady(rocmSmiCmd, proc[rocmSmiCmd])
    /\ LET r == parseAmdData(GpuDataMap, line) IN
         /\ GpuDataMap' = r.map
         /\ acc' = IF r.ok THEN addCardReadings(acc, line.cards) ELSE acc
         /\ dirty' = (dirty \/ r.map # GpuDataMap)
         /\ writers' = wrote(writers, rocmSmiCmd, GpuDataMap, r.map)
         /\ Dispatched(rocmSmiCmd, r.ok)
    /\ mutex' = IF amdDecodes(line) THEN "" ELSE mutex
    /\ UNCHANGED <<path, mgr, flags, started, proc, blob, snapPc, lastSnap, held,
                   nSamples, nSnaps,
                   okAfter>>

\* parseIntelGpuTopData on the whole output of intel_gpu_top: output that does
\* not decode is turned down before the lock; with the lock, it updates entry
\* "0" and unlocks, or, when the entry is missing, starts getIntelGpuName's
\* subprocess with the lock held
IntelBlob(b) ==
    /\ IF b.err
       THEN /\ pc[intelGpuTopCmd] = "run"
            /\ outputReady(intelGpuTopCmd, proc[intelGpuTopCmd])
            /\ Returned(intelGpuTopCmd, "nodata")
            /\ UNCHANGED <<GpuDataMap, mutex, blob, acc, dirty, writers>>
       ELSE /\ pc[intelGpuTopCmd] = "parse"
            /\ UNCHANGED failures
            /\ IF "0" \in DOMAIN GpuDataMap
               THEN /\ GpuDataMap' = intelUpdate(GpuDataMap, b, <<>>)
                    /\ acc' = addReading(acc, "0",
                                         b.render + b.blitter + b.video + b.enhance,
                                         IF b.package > b.gpu THEN b.package ELSE b.gpu)
                    /\ dirty' = TRUE
                    /\ writers' = wrote(writers, intelGpuTopCmd, GpuDataMap,
                                        intelUpdate(GpuDataMap, b, <<>>))
                    /\ pc' = [pc EXCEPT ![intelGpuTopCmd] = "wait"]
                    /\ mutex' = ""
                    /\ UNCHANGED blob
               ELSE /\ blob' = b
                    /\ pc' = [pc EXCEPT ![intelGpuTopCmd] = "name"]
                    /\ UNCHANGED <<GpuDataMap, mutex, acc, dirty, writers>>
    /\ UNCHANGED <<path, mgr, flags, started, proc, snapPc, lastSnap, held, nSamples, nSnaps,
                   okAfter>>

\* getIntelGpuName's subprocess ended: parseIntelGpuTopData creates entry "0",
\* adds the sample and unlocks
IntelNameReturn(res) ==
    /\ pc[intelGpuTopCmd] = "name"
    /\ GpuDataMap' = intelUpdate(GpuDataMap, blob, getIntelGpuName(res))
    /\ acc' = addReading(acc, "0",
                         blob.render + blob.blitter + blob.video + blob.enhance,
                         IF blob.package > blob.gpu THEN blob.package ELSE blob.gpu)
    /\ dirty' = TRUE
    /\ writers' = wrote(writers, intelGpuTopCmd, GpuDataMap,
                        intelUpdate(GpuDataMap, blob, getIntelGpuName(res)))
    /\ mutex' = ""
    /\ blob' = IntelBad
    /\ pc' = [pc EXCEPT ![intelGpuTopCmd] = "wait"]
    /\ UNCHANGED <<path, mgr, flags, started, proc, failures, snapPc, lastSnap, held,
                   nSamples, nSnaps,
                   okAfter>>

\* collect() returns other than on its parser's false: "stream" when the read
\* of the output failed (scanner.Err, io.ReadAll), without cmd.Wait; else what
\* cmd.Wait gave once the output ended, "nil" or "exit"
PassEnd(c, result) ==
    /\ \/ pc[c] = "run" /\ (c = intelGpuTopCmd => result = "stream" /\ proc[c] = "running")
       \/ pc[c] = "wait" /\ result # "stream"
    /\ Returned(c, result)
    /\ proc' = IF result = "stream" THEN proc ELSE [proc EXCEPT ![c] = "none"]
    /\ okAfter' = IF result = "nil" /\ c \in DOMAIN failures
                  THEN [okAfter EXCEPT ![c] = {failures[c]}] ELSE okAfter
    /\ UNCHANGED <<path, mgr, flags, started, GpuDataMap, mutex, blob, snapPc,
                   lastSnap, held, acc, dirty, writers, nSamples, nSnaps>>

\* time.Sleep returns
Wake(c) ==
    /\ pc[c] = "sleep"
    /\ pc' = [pc EXCEPT ![c] = "start"]
    /\ okAfter' = IF c \in DOMAIN okAfter THEN [okAfter EXCEPT ![c] = {}] ELSE okAfter
    /\ UNCHANGED <<path, mgr, flags, started, GpuDataMap, mutex, proc, failures, blob,
                   snapPc, lastSnap, held, acc, dirty, writers, nSamples, nSnaps>>

\* ---------------------------------------------------------------- snapshot
\* the reporting loop calls GetCurrentData, which waits for the lock
SnapshotCall ==
    /\ mgr = "ok" /\ snapPc = "idle" /\ nSnaps < MaxSnaps
    /\ snapPc' = "waiting"
    /\ UNCHANGED <<path, mgr, flags, started, GpuDataMap, mutex, pc, proc, failures, blob,
                   lastSnap, held, acc, dirty, writers, nSamples, nSnaps,
                   okAfter>>

\* GetCurrentData has the lock, runs and returns; the caller keeps hold of the
\* first map it is given that has an entry
GetCurrentData ==
    /\ snapPc = "waiting" /\ mutex = ""
    /\ GpuDataMap' = registryAfter(GpuDataMap)
    /\ lastSnap' = [id \in DOMAIN GpuDataMap |-> gpuCopy(GpuDataMap, id)]
    /\ held' = IF held = NoMap THEN [id \in DOMAIN GpuDataMap |-> cell(GpuDataMap, id)]
               ELSE held
    /\ acc' = NoReadings
    /\ dirty' = FALSE
    /\ nSnaps' = nSnaps + 1
    /\ snapPc' = "idle"
    /\ UNCHANGED <<path, mgr, flags, started, mutex, pc, proc, failures, blob, writers,
                   nSamples,
                   okAfter>>

\* the value the caller writes into a map it holds
Scribble == 99 * 1000

\* the caller overwrites the usage of every entry of the map it holds
CallerWrite ==
    /\ held # NoMap
    /\ GpuDataMap' = [id \in DOMAIN GpuDataMap |->
                        IF id \in DOMAIN held /\ held[id].alias
                        THEN [GpuDataMap[id] EXCEPT !.Usage = Scribble]
                        ELSE GpuDataMap[id]]
    /\ held' = [id \in DOMAIN held |->
                  IF held[id].alias THEN held[id]
                  ELSE [held[id] EXCEPT !.val.Usage = Scribble]]
    /\ UNCHANGED <<path, mgr, flags, started, mutex, pc, proc, failures, blob, snapPc,
                   lastSnap, acc, dirty, writers, nSamples, nSnaps,
                   okAfter>>

\* ------------------------------------------------------------ specification
Next ==
    \/ NewGPUManager
    \/ \E c \in ToolSet, ok \in BOOLEAN : Start(c, ok)
    \/ OutputEnds
    \/ \E c \in ToolSet : ParserLock(c)
    \/ \E line \in NvidiaLines : NvidiaLine(line)
    \/ \E line \in TegraLines : TegraLine(line)
    \/ \E line \in RocmLines : RocmLine(line)
    \/ \E b \in IntelBlobs : IntelBlob(b)
    \/ \E res \in NameResults : IntelNameReturn(res)
    \/ \E c \in ToolSet, result \in {"nil", "stream", "exit"} : PassEnd(c, result)
    \/ \E c \in ToolSet : Wake(c)
    \/ SnapshotCall
    \/ GetCurrentData
    \/ CallerWrite

Spec == Init /\ [][Next]_vars

\* the step of collector c's parser that ends with its Unlock() or, in
\* parseIntelGpuTopData, with the name lookup's start
ParserBody(c) ==
    /\ pc[c] = "parse"
    /\ \/ \E line \in NvidiaLines : NvidiaLine(line)
       \/ \E line \in TegraLines : TegraLine(line)
       \/ \E line \in RocmLines : RocmLine(line)
       \/ \E b \in IntelBlobs : IntelBlob(b)

\* The Go scheduler runs every goroutine that can run (a collector about to
\* start a command, a parser past its Lock()), a timer fires, and the mutex
\* hands the lock to a waiter that keeps waiting (starvation mode).  What a
\* subprocess prints and whether it ever exits is the host's choice.
Fairness ==
    /\ WF_vars(NewGPUManager)
    /\ SF_vars(GetCurrentData)
    /\ \A c \in ToolSet : WF_vars(Wake(c))
    /\ \A c \in ToolSet : WF_vars(\E ok \in BOOLEAN : Start(c, ok))
    /\ \A c \in ToolSet : WF_vars(ParserBody(c))

FairSpec == Spec /\ Fairness

\* ------------------------------------------------------------------ claims
\* the step on which GetCurrentData runs and returns
SnapshotReturns == snapPc = "waiting" /\ snapPc' = "idle"

\* C1: every snapshot, the first and the later ones: for a device with N >= 1
\* readings added since the previous snapshot (or since creation), the
\* returned usage and power are the readings' sums divided by N, rounded to
\* two decimals.
C1_SnapshotAveragesInterval ==
    [][SnapshotReturns =>
         \A id \in DOMAIN GpuDataMap :
            acc[id].n >= 1 =>
               /\ FEq(lastSnap'[id].Usage, twoDecimals(FDiv(acc[id].usage, acc[id].n)))
               /\ FEq(lastSnap'[id].Power, twoDecimals(FDiv(acc[id].power, acc[id].n)))]_vars

\* two returned maps hold the same value in every field of every device
SameSnapshot(a, b) ==
    /\ DOMAIN a = DOMAIN b
    /\ \A id \in DOMAIN a :
          /\ a[id].Name = b[id].Name
          /\ FEq(a[id].Temperature, b[id].Temperature)
          /\ FEq(a[id].MemoryUsed, b[id].MemoryUsed)
          /\ FEq(a[id].MemoryTotal, b[id].MemoryTotal)
          /\ FEq(a[id].Usage, b[id].Usage)
          /\ FEq(a[id].Power, b[id].Power)
          /\ FEq(a[id].Count, b[id].Count)

\* C2: a snapshot that follows another with no parser update in between
\* returns the same value for every field of every device, from any registry
\* state, an entry with no sample counted yet included.
C2_RepeatedSnapshotSame ==
    [][(SnapshotReturns /\ nSnaps >= 1 /\ ~dirty) => SameSnapshot(lastSnap', lastSnap)]_vars

\* C3: whenever the registry lock is free, every entry of the registry has
\* Count >= 1, on every host.
C3_CountAtLeastOne ==
    mutex = "" => \A id \in DOMAIN GpuDataMap : GpuDataMap[id].Count >= 1

\* a host where nvidia-smi and tegrastats are active and no other tool is
JetsonHost == flags = {nvidiaSmiCmd, tegraStatsCmd}

\* the name parseNvidiaData gives the entry it creates for a line
nameOf(line) == TrimSuffixLaptop(TrimPrefixNvidia(line.name))

\* C4 as claimed: on a host with nvidia-smi and tegrastats only, whatever
\* nvidia-smi prints, its collector ends up terminated for good, is terminated
\* only once entry "0" with the device name exists, and the nvidia-smi parser
\* never writes the metrics of entry "0".
C4_NvidiaStopsAfterName ==
    /\ [](JetsonHost => <>[](pc[nvidiaSmiCmd] = "done"))
    /\ []((JetsonHost /\ pc[nvidiaSmiCmd] = "done") =>
             ("0" \in DOMAIN GpuDataMap /\ GpuDataMap["0"].Name = nameOf(NvA)))
    /\ [][(JetsonHost /\ "0" \in DOMAIN GpuDataMap /\ \E l \in NvidiaLines : NvidiaLine(l)) =>
             GpuDataMap'["0"] = GpuDataMap["0"]]_vars

\* C4 as amended: on such a host the nvidia-smi collector terminates, for
\* good, exactly at the first line handed to its parser, whatever the line; a
\* well-formed line leaves the entry for its id holding the trimmed device
\* name and no metrics, a malformed line leaves the registry as it was; and
\* the nvidia-smi parser never changes an entry that exists.
C4_NvidiaStopsAtFirstLine ==
    [][JetsonHost =>
         /\ pc[nvidiaSmiCmd] = "done" => pc'[nvidiaSmiCmd] = "done"
         /\ (pc[nvidiaSmiCmd] # "done" /\ pc'[nvidiaSmiCmd] = "done") =>
               \E l \in NvidiaLines : NvidiaLine(l)
         /\ \A l \in NvidiaLines : NvidiaLine(l) =>
               /\ pc'[nvidiaSmiCmd] = "done"
               /\ \A id \in DOMAIN GpuDataMap :
                     id \in DOMAIN GpuDataMap' /\ GpuDataMap'[id] = GpuDataMap[id]
               /\ IF l.nf >= 7
                  THEN /\ DOMAIN GpuDataMap' = DOMAIN GpuDataMap \cup {l.id}
                       /\ l.id \notin DOMAIN GpuDataMap =>
                             GpuDataMap'[l.id] = NewGPUData(nameOf(l))
                  ELSE GpuDataMap' = GpuDataMap]_vars

\* C4's case: the nvidia-smi collector has stopped after naming device "0",
\* and tegrastats has written a sample into the entry
C4_Witness ==
    /\ JetsonHost /\ pc[nvidiaSmiCmd] = "done"
    /\ "0" \in DOMAIN GpuDataMap
    /\ GpuDataMap["0"].Name = <<"RTX", "4090">>
    /\ GpuDataMap["0"].Count >= 1
    /\ GpuDataMap["0"].MemoryTotal = 4096000

\* C5: every GetCurrentData call gets the lock and returns, whatever the
\* collectors and their subprocesses do.
C5_SnapshotReturns == (snapPc = "waiting") ~> (snapPc = "idle")

\* C6: a snapshot returns an entry whose name several entries share as
\* "<name> <id>" and any other entry's name as it is, and no step changes the
\* name a registry entry holds.
C6_NamesDisambiguatedInCopyOnly ==
    [][/\ \A id \in DOMAIN GpuDataMap :
             id \in DOMAIN GpuDataMap' /\ GpuDataMap'[id].Name = GpuDataMap[id].Name
       /\ SnapshotReturns =>
             /\ DOMAIN lastSnap' = DOMAIN GpuDataMap
             /\ \A id \in DOMAIN GpuDataMap :
                   lastSnap'[id].Name =
                      IF \E other \in DOMAIN GpuDataMap \ {id} :
                            GpuDataMap[other].Name = GpuDataMap[id].Name
                      THEN GpuDataMap[id].Name \o <<id>>
                      ELSE GpuDataMap[id].Name]_vars

\* C6's case: two entries named alike were returned with their ids appended,
\* and the registry still holds the plain name
C6_Witness ==
    /\ DOMAIN lastSnap = {"0", "1"}
    /\ lastSnap["0"].Name = <<"RTX", "4090", "0">>
    /\ lastSnap["1"].Name = <<"RTX", "4090", "1">>
    /\ GpuDataMap["0"].Name = <<"RTX", "4090">>
    /\ GpuDataMap["1"].Name = <<"RTX", "4090">>

\* C6's other case: a name no other entry has is returned as it is
C6_WitnessUnique ==
    /\ DOMAIN lastSnap = {"0"}
    /\ lastSnap["0"].Name = <<"RTX", "4090">>

\* what the caller reads in the map it holds
heldView(h, m) == [id \in DOMAIN h |-> readCell(h[id], id, m)]

\* C7: no step other than the caller's own write changes what a returned map
\* shows, parser updates and later snapshots included, and the caller's write
\* changes no registry entry.
C7_ReturnedMapIndependent ==
    [][/\ CallerWrite => GpuDataMap' = GpuDataMap
       /\ held' = held => heldView(held', GpuDataMap') = heldView(held, GpuDataMap)]_vars

\* C7's case: the caller wrote to the map it holds, and a parser and a later
\* snapshot have changed the entry since the map was returned
C7_Witness ==
    /\ nSnaps = 2
    /\ "0" \in DOMAIN held
    /\ held["0"].val.Usage = Scribble
    /\ held["0"].val.Temperature = 45000
    /\ GpuDataMap["0"].Temperature = 55000
    /\ GpuDataMap["0"].Usage = 15000

\* C8: a rocm-smi line that does not decode, or decodes to an empty map, makes
\* parseAmdData return false (its collector counts a failure) with the
\* registry and the lock as they were.
C8_AmdRejectLeavesRegistry ==
    [][\A l \in RocmLines : (RocmLine(l) /\ (l.err \/ Len(l.cards) = 0)) =>
          /\ GpuDataMap' = GpuDataMap
          /\ mutex' = mutex
          /\ failures'[rocmSmiCmd] = failures[rocmSmiCmd] + 1
          /\ parseAmdData(GpuDataMap, l) = [ok |-> FALSE, map |-> GpuDataMap]]_vars

\* C8's case: the registry has an entry of rocm-smi's and its collector has
\* since counted a failure
C8_Witness ==
    /\ "a1" \in DOMAIN GpuDataMap
    /\ nSamples = 1
    /\ failures[rocmSmiCmd] = 1
    /\ pc[rocmSmiCmd] = "sleep"

\* how many of the started collectors run tool c
startedFor(c) == Cardinality({i \in 1..Len(started) : started[i] = c})

\* C9: with no tool found NewGPUManager returns an error and starts no
\* collector; with a tool found it succeeds and starts exactly one collector
\* for each tool found and none for any other.  Before the call, the last
\* conjunct puts every set of tools, the hosts not run included, through
\* detection and start.
C9_OneCollectorPerDetectedTool ==
    /\ mgr = "error" => (path = {} /\ started = <<>> /\ \A c \in ToolSet : pc[c] = "off")
    /\ mgr = "ok" => /\ path # {}
                     /\ \A c \in ToolSet : startedFor(c) = (IF c \in path THEN 1 ELSE 0)
                     /\ \A c \in ToolSet : pc[c] # "off" <=> c \in path
    /\ mgr = "new" =>
          /\ started = <<>>
          /\ \A p \in SUBSET ToolSet :
                /\ detectGPUs(p) = {} <=> p = {}
                /\ \A c \in ToolSet :
                      Cardinality({i \in 1..Len(startCollectors(detectGPUs(p))) :
                                     startCollectors(detectGPUs(p))[i] = c})
                         = (IF c \in p THEN 1 ELSE 0)

\* C9's cases: construction failed on a host with no tool, and succeeded on a
\* host with two
C9_Witness == mgr = "error" /\ path = {}

C9_WitnessStarted == mgr = "ok" /\ Len(started) = 2

\* entry "0" after nvidia-smi's first line of the scenario, and after its second
ScenarioFirst ==
    [Name |-> <<"RTX", "4090">>, Temperature |-> 45000, MemoryUsed |-> 2000000,
     MemoryTotal |-> 24000000, Usage |-> 10000, Power |-> 30000, Count |-> 1]
ScenarioSecond ==
    [Name |-> <<"RTX", "4090">>, Temperature |-> 55000, MemoryUsed |-> 2000000,
     MemoryTotal |-> 24000000, Usage |-> 30000, Power |-> 70000, Count |-> 2]

\* C10: with tegrastats not active, a well-formed nvidia-smi line adds its
\* usage and power to the entry's sums, adds 1 to Count and overwrites
\* temperature and memory (divided by 1.024), creating the entry if absent and
\* touching no other entry; the two lines of the scenario leave entry "0" at
\* temperature 55, memory used 2000, usage 30, power 70, Count 2, and the
\* snapshot that follows returns usage 15 and power 35 and leaves Count 1.
C10_NvidiaLineAccumulates ==
    [][tegraStatsCmd \notin flags =>
         /\ \A l \in NvidiaLines : (NvidiaLine(l) /\ l.nf >= 7) =>
               LET old == IF l.id \in DOMAIN GpuDataMap THEN GpuDataMap[l.id]
                          ELSE NewGPUData(nameOf(l))
               IN /\ DOMAIN GpuDataMap' = DOMAIN GpuDataMap \cup {l.id}
                  /\ \A id \in DOMAIN GpuDataMap \ {l.id} : GpuDataMap'[id] = GpuDataMap[id]
                  /\ GpuDataMap'[l.id] =
                        [Name |-> old.Name,
                         Temperature |-> ParseFloat(l.temp),
                         MemoryUsed |-> MiBToMB(ParseFloat(l.memUsed)),
                         MemoryTotal |-> MiBToMB(ParseFloat(l.memTotal)),
                         Usage |-> FAdd(old.Usage, ParseFloat(l.usage)),
                         Power |-> FAdd(old.Power, ParseFloat(l.power)),
                         Count |-> old.Count + 1]
         /\ (NvidiaLine(NvA) /\ "0" \notin DOMAIN GpuDataMap) =>
               GpuDataMap'["0"] = ScenarioFirst
         /\ (NvidiaLine(NvB) /\ "0" \in DOMAIN GpuDataMap /\ GpuDataMap["0"] = ScenarioFirst) =>
               GpuDataMap'["0"] = ScenarioSecond
         /\ (SnapshotReturns /\ "0" \in DOMAIN GpuDataMap /\ GpuDataMap["0"] = ScenarioSecond) =>
               /\ lastSnap'["0"].Usage = 15000
               /\ lastSnap'["0"].Power = 35000
               /\ lastSnap'["0"].Temperature = 55000
               /\ lastSnap'["0"].MemoryUsed = 2000000
               /\ GpuDataMap'["0"].Count = 1]_vars

\* C10's case: the scenario's two lines, then the snapshot
C10_Witness ==
    /\ flags = {nvidiaSmiCmd}
    /\ nSamples = 2 /\ nSnaps = 1
    /\ "0" \in DOMAIN lastSnap
    /\ lastSnap["0"].Usage = 15000 /\ lastSnap["0"].Power = 35000
    /\ GpuDataMap["0"].Temperature = 55000
    /\ GpuDataMap["0"].Count = 1

\* the readings two returned entries hold are the same values
SameReadings(a, b) ==
    /\ FEq(a.Temperature, b.Temperature)
    /\ FEq(a.MemoryUsed, b.MemoryUsed)
    /\ FEq(a.MemoryTotal, b.MemoryTotal)
    /\ FEq(a.Usage, b.Usage)
    /\ FEq(a.Power, b.Power)

\* C11: no step removes a registry entry; and an entry that only one collector
\* has written, once that collector has terminated, is changed by no step but
\* a snapshot's averaging, and every snapshot returns for it the readings the
\* snapshot before returned.
C11_EntriesKeptAndFrozen ==
    [][/\ DOMAIN GpuDataMap \subseteq DOMAIN GpuDataMap'
       /\ \A id \in DOMAIN GpuDataMap, c \in ToolSet :
             (pc[c] = "done" /\ writers'[id] = {c}) =>
                /\ pc'[c] = "done"
                /\ ~SnapshotReturns => GpuDataMap'[id] = GpuDataMap[id]
                /\ (SnapshotReturns /\ id \in DOMAIN lastSnap /\ acc[id].n = 0) =>
                      SameReadings(lastSnap'[id], lastSnap[id])]_vars

\* the positions where a collector goroutine runs, or waits for, a subprocess
\* or its output
inSubprocessIO(c) == pc[c] \in {"start", "run", "name", "wait"}

\* C12: in every reachable state, the goroutine that holds the mutex is not
\* starting, reading or waiting for a subprocess, parseIntelGpuTopData's
\* creation of entry "0" included.
C12_NoSubprocessUnderLock ==
    \A c \in ToolSet : mutex = c => ~inSubprocessIO(c)

\* C13: a collector that is not inside collect() has left no subprocess it
\* started un-waited: collect() calls cmd.Wait on every path after cmd.Start
\* succeeded, the parser's false, a stream error and a read-all error included.
C13_CollectWaitsForSubprocess ==
    \A c \in ToolSet : pc[c] \in {"off", "start", "sleep", "done"} => proc[c] = "none"

\* the collectors run by gpuCollector.start
startLoop == {nvidiaSmiCmd, tegraStatsCmd}

\* the step on which collector c's parser returns false and collect() returns
\* errNoValidData
ParserFalse(c) ==
    \/ /\ c = nvidiaSmiCmd
       /\ \E l \in NvidiaLines :
             /\ NvidiaLine(l)
             /\ ~parseNvidiaData(GpuDataMap, <<l>>, tegraStatsCmd \in flags).ok
    \/ c = tegraStatsCmd /\ \E l \in TegraLines : TegraLine(l) /\ ~jetsonParser(GpuDataMap, l).ok
    \/ c = rocmSmiCmd /\ \E l \in RocmLines : RocmLine(l) /\ ~amdDecodes(l)
    \/ c = intelGpuTopCmd /\ \E b \in IntelBlobs : IntelBlob(b) /\ b.err

\* the step on which collector c's collect() returns an error that is not
\* errNoValidData
ErrorReturn(c) == Start(c, FALSE) \/ PassEnd(c, "stream") \/ PassEnd(c, "exit")

\* C14: a collector run by gpuCollector.start terminates exactly on the step
\* where collect() returns errNoValidData, and stays terminated with no new
\* subprocess; after a pass that returns nil it is at its next pass at once;
\* after any other error it sleeps and then is at its next pass.
C14_StartLoopPolicy ==
    [][\A c \in startLoop :
          /\ pc[c] = "done" => (pc'[c] = "done" /\ proc'[c] = proc[c])
          /\ (pc[c] # "done" /\ pc'[c] = "done") <=> ParserFalse(c)
          /\ PassEnd(c, "nil") => pc'[c] = "start"
          /\ ErrorReturn(c) => pc'[c] = "sleep"
          /\ Wake(c) => pc'[c] = "start"]_vars

\* C14's case: on a host with both, the nvidia-smi collector has terminated
\* and the tegrastats collector sleeps after an error
C14_Witness ==
    /\ pc[nvidiaSmiCmd] = "done"
    /\ pc[tegraStatsCmd] = "sleep"

\* C15: the intel_gpu_top collector's counter is 0 after every pass that
\* succeeds and one more after every pass that fails, so it counts the failed
\* passes in a row; the collector terminates, for good, exactly when the
\* counter passes maxFailureRetries, and sleeps after any other pass.
C15_IntelResetsOnSuccess ==
    /\ [](/\ failures[intelGpuTopCmd] \in 0..(maxFailureRetries + 1)
          /\ pc[intelGpuTopCmd] = "done" <=> failures[intelGpuTopCmd] = maxFailureRetries + 1)
    /\ [][/\ PassEnd(intelGpuTopCmd, "nil") =>
                (failures'[intelGpuTopCmd] = 0 /\ pc'[intelGpuTopCmd] = "sleep")
          /\ (ErrorReturn(intelGpuTopCmd) \/ ParserFalse(intelGpuTopCmd)) =>
                /\ failures'[intelGpuTopCmd] = failures[intelGpuTopCmd] + 1
                /\ pc'[intelGpuTopCmd] =
                      IF failures[intelGpuTopCmd] = maxFailureRetries THEN "done" ELSE "sleep"
          /\ failures'[intelGpuTopCmd] # failures[intelGpuTopCmd] =>
                pc[intelGpuTopCmd] \in {"start", "run", "wait"}
          /\ pc[intelGpuTopCmd] = "done" => pc'[intelGpuTopCmd] = "done"]_vars

\* C15's case: a pass has succeeded after five failed ones in a row, and the
\* counter is back at 0
C15_Witness ==
    /\ okAfter[intelGpuTopCmd] = {maxFailureRetries}
    /\ failures[intelGpuTopCmd] = 0
    /\ pc[intelGpuTopCmd] = "sleep"

\* C16: the rocm-smi collector's counter stays as it is after a pass that
\* succeeds and is one more after every pass that fails, so it never
\* decreases and counts all the failed passes; the collector terminates, for
\* good, exactly when the counter passes maxFailureRetries, and sleeps after
\* any other pass, failed or not.
C16_RocmNeverResets ==
    /\ [](/\ failures[rocmSmiCmd] \in 0..(maxFailureRetries + 1)
          /\ pc[rocmSmiCmd] = "done" <=> failures[rocmSmiCmd] = maxFailureRetries + 1)
    /\ [][/\ PassEnd(rocmSmiCmd, "nil") =>
                (failures'[rocmSmiCmd] = failures[rocmSmiCmd] /\ pc'[rocmSmiCmd] = "sleep")
          /\ (ErrorReturn(rocmSmiCmd) \/ ParserFalse(rocmSmiCmd)) =>
                /\ failures'[rocmSmiCmd] = failures[rocmSmiCmd] + 1
                /\ pc'[rocmSmiCmd] =
                      IF failures[rocmSmiCmd] = maxFailureRetries THEN "done" ELSE "sleep"
          /\ failures'[rocmSmiCmd] >= failures[rocmSmiCmd]
          /\ failures'[rocmSmiCmd] # failures[rocmSmiCmd] =>
                pc[rocmSmiCmd] \in {"start", "run"}
          /\ pc[rocmSmiCmd] = "done" => pc'[rocmSmiCmd] = "done"]_vars

\* C16's case: a pass has succeeded after five failed ones, and the counter
\* still stands at five
C16_Witness ==
    /\ okAfter[rocmSmiCmd] = {maxFailureRetries}
    /\ failures[rocmSmiCmd] = maxFailureRetries
    /\ pc[rocmSmiCmd] = "sleep"

\* C16's other case: the collector has terminated at its sixth failed pass,
\* with a sample of an earlier pass in the registry
C16_WitnessDone ==
    /\ pc[rocmSmiCmd] = "done"
    /\ failures[rocmSmiCmd] = maxFailureRetries + 1
    /\ "a1" \in DOMAIN GpuDataMap

\* C17: for every collector, the step on which its collect() returns
\* errNoValidData terminates it, for good, and changes the position of no
\* other collector and not the snapshot's.
C17_NoValidDataTerminal ==
    [][\A c \in ToolSet :
          /\ ParserFalse(c) =>
                /\ pc'[c] = "done"
                /\ \A d \in ToolSet \ {c} : pc'[d] = pc[d]
                /\ snapPc' = snapPc
          /\ pc[c] = "done" => pc'[c] = "done"]_vars

\* the collector goroutines between a parser's Lock() and its Unlock()
inside == {c \in ToolSet : pc[c] \in {"parse", "name"}}

\* C18: at most one goroutine is between a parser's Lock() and Unlock(), it
\* is the one the mutex belongs to, and the mutex is free when there is none;
\* a step that changes the registry is the snapshot's, taken with the mutex
\* free, or the step of the parser that holds the mutex; and the snapshot
\* runs only when no parser is part-way through a call.
C18_RegistryUnderMutex ==
    /\ [](/\ Cardinality(inside) <= 1
          /\ \A c \in inside : mutex = c
          /\ inside = {} => mutex = "")
    /\ [][/\ GpuDataMap' # GpuDataMap =>
                \/ SnapshotReturns /\ mutex = ""
                \/ mutex \in inside /\ pc'[mutex] # pc[mutex]
          /\ \A c \in ToolSet : ParserBody(c) => mutex = c
          /\ (\E res \in NameResults : IntelNameReturn(res)) => mutex = intelGpuTopCmd
          /\ SnapshotReturns => inside = {}]_vars

\* C18's case: the nvidia-smi parser is past its Lock() while the tegrastats
\* collector has a line to hand to its parser and a snapshot waits
C18_Witness ==
    /\ pc[nvidiaSmiCmd] = "parse"
    /\ mutex = nvidiaSmiCmd
    /\ pc[tegraStatsCmd] = "run"
    /\ snapPc = "waiting"

\* registries with and without entry "0", and with other entries
SampleRegistries ==
    {NoMap,
     amdRange(NoMap, <<RocmCard>>),
     nvidiaScan(NoMap, <<NvA, NvC>>, FALSE, FALSE).map,
     amdRange(nvidiaScan(NoMap, <<NvA, NvC, NvB>>, FALSE, FALSE).map, <<RocmCard>>)}

\* what C19 says of one call of the tegrastats parser, from registry m to r.map
JetsonEffect(m, r) ==
    /\ r.ok
    /\ DOMAIN r.map = DOMAIN m
    /\ \A id \in DOMAIN m \ {"0"} : r.map[id] = m[id]
    /\ "0" \in DOMAIN m => r.map["0"].Count = m["0"].Count + 1

\* C19: the tegrastats parser returns true on every call; with no entry "0"
\* it leaves the registry as it is and its collector goes on reading; with
\* the entry it adds exactly 1 to that entry's Count and leaves every other
\* entry as it is.  Before construction the parser is also put through
\* registries that hold other entries.
C19_JetsonParserNoOpWithoutEntry ==
    /\ [](mgr = "new" =>
             \A m \in SampleRegistries, l \in TegraLines : JetsonEffect(m, jetsonParser(m, l)))
    /\ [][\A l \in TegraLines : TegraLine(l) =>
             /\ JetsonEffect(GpuDataMap, [ok |-> jetsonParser(GpuDataMap, l).ok,
                                          map |-> GpuDataMap'])
             /\ pc'[tegraStatsCmd] = "run"]_vars

\* C19's case: on a host with tegrastats only, the parser has been called and
\* has returned, the registry is empty and the collector reads on
C19_Witness ==
    /\ path = {tegraStatsCmd}
    /\ nSamples >= 1
    /\ pc[tegraStatsCmd] = "run"
    /\ mutex = ""
    /\ GpuDataMap = NoMap

\* C19's other case: the parser has counted two samples in entry "0"
C19_WitnessCounted ==
    /\ "0" \in DOMAIN GpuDataMap
    /\ writers["0"] = {nvidiaSmiCmd, tegraStatsCmd}
    /\ GpuDataMap["0"].Count = 2

\* the collectors whose output collect() reads line by line
lineMode == {nvidiaSmiCmd, rocmSmiCmd, tegraStatsCmd}

\* C20: collect() hands a line to the parser only while its subprocess's
\* output is being read, one line for each call; after a line the parser
\* accepts, it reads on; at the first line the parser turns down it returns
\* errNoValidData, so that no later line of that subprocess is handed over,
\* and that step leaves every entry the registry had as it was.
C20_ScanStopsAtFirstFalse ==
    [][\A c \in lineMode :
          /\ pc'[c] = "parse" => pc[c] \in {"run", "parse"}
          /\ (pc[c] = "parse" /\ pc'[c] = "run") => ParserBody(c) /\ ~ParserFalse(c)
          /\ ParserFalse(c) =>
                /\ pc'[c] \in {"sleep", "done"}
                /\ c \in DOMAIN failures => failures'[c] = failures[c] + 1
                /\ \A id \in DOMAIN GpuDataMap :
                      id \in DOMAIN GpuDataMap' /\ GpuDataMap'[id] = GpuDataMap[id]]_vars

\* C20's case: on a host with nvidia-smi only, the first line's sample is in
\* the registry and the second line, a malformed one, has ended the pass
C20_Witness ==
    /\ path = {nvidiaSmiCmd}
    /\ nSamples = 2
    /\ pc[nvidiaSmiCmd] = "done"
    /\ "0" \in DOMAIN GpuDataMap
    /\ GpuDataMap["0"] = ScenarioFirst

\* C21: the intel_gpu_top parser is called, and a sample of intel_gpu_top
\* recorded, only with the subprocess's output read to the end of the stream;
\* once the parser has been called the pass does not read or parse again, so
\* a pass calls it at most once, and a pass that returns nil has called it.
C21_BlobParsedOnceAtEnd ==
    /\ [](pc[intelGpuTopCmd] \in {"parse", "name", "wait"} => proc[intelGpuTopCmd] = "closed")
    /\ [][/\ pc'[intelGpuTopCmd] = "parse" =>
                (pc[intelGpuTopCmd] \in {"run", "parse"} /\ proc[intelGpuTopCmd] = "closed")
          /\ ((\E b \in IntelBlobs : IntelBlob(b)) \/ (\E res \in NameResults : IntelNameReturn(res)))
                => proc[intelGpuTopCmd] = "closed"
          /\ pc[intelGpuTopCmd] \in {"parse", "name", "wait"} =>
                pc'[intelGpuTopCmd] \in {"parse", "name", "wait", "sleep", "done"}
          /\ pc'[intelGpuTopCmd] = "run" => pc[intelGpuTopCmd] \in {"start", "run"}
          /\ PassEnd(intelGpuTopCmd, "nil") => pc[intelGpuTopCmd] = "wait"
          /\ intelGpuTopCmd \in writers'["0"] \ writers["0"] => proc[intelGpuTopCmd] = "closed"]_vars

\* C21's case: intel_gpu_top's output has ended, the parser has recorded its
\* one sample and collect() is at cmd.Wait
C21_Witness ==
    /\ pc[intelGpuTopCmd] = "wait"
    /\ proc[intelGpuTopCmd] = "closed"
    /\ "0" \in DOMAIN GpuDataMap
    /\ writers["0"] = {intelGpuTopCmd}
    /\ GpuDataMap["0"].Count = 1

\* C22: every entry is written by the parser of one collector only (but for
\* the entry parseNvidiaData creates, without a sample, for the tegrastats
\* parser to fill), on every host: no entry holds what two tools wrote.
C22_OneWriterPerEntry ==
    \A id \in Ids :
       \/ Cardinality(writers[id]) <= 1
       \/ writers[id] = {nvidiaSmiCmd, tegraStatsCmd}

=============================================================================
